---- MODULE Spec2Model ----
(***************************************************************************)
(* ProjectilX: projectile-motion simulator (React).                        *)
(*                                                                         *)
(* Fixed-point units used for the JavaScript numbers:                      *)
(*   timestamps (requestAnimationFrame `time`, lastTimeRef)  : ms          *)
(*   deltaTime, currentTime, sample.t                        : 0.1 s       *)
(*   theta : degrees    v0 : m/s    h0 : m    mass : 0.1 kg                *)
(*   gravity                                                 : 0.01 m/s^2  *)
(*   sample.vx, sample.vy                                    : mm/s        *)
(*   sample.x                                                : 0.1 mm      *)
(*   sample.y                                                : 0.05 mm     *)
(*   sample.v                                                : 0.1 m/s     *)
(* With these units every expression of calculateTelemetry except the      *)
(* square root is exact integer arithmetic.                                *)
(***************************************************************************)
EXTENDS Integers, Sequences, FiniteSets, TLC

VARIABLES
    entry,          \* which App component is mounted: "App" (src/App.tsx) or "index" (src/unnamed/part_000)
    params,         \* useState<PhysicsParams>
    gravityPreset,  \* useState<GravityType>
    isRunning,      \* useState(false)
    currentTime,    \* useState(0)
    telemetry,      \* useState<TelemetryData>
    history,        \* useState<TelemetryData[]>
    lastTimeRef,    \* useRef<number>(0)
    animRunning,    \* the isRunning value captured by the animate closure of the mounted effect
    clock,          \* timestamp of the latest animation frame delivered by the host
    frames,         \* history variable: frames processed since handleReset last ran
    edits,          \* history variable: edits made in the control panel
    loading,        \* AIAnalysis: useState(false)
    isOpen,         \* AIAnalysis: useState(false)
    analysis,       \* AIAnalysis: useState<string | null>(null)
    pending         \* AIAnalysis: generateContent calls awaiting their result

simVars == <<isRunning, currentTime, telemetry, history, lastTimeRef, animRunning, clock, frames>>
paramVars == <<params, gravityPreset, edits>>
aiVars == <<loading, isOpen, analysis, pending>>
vars == <<entry, params, gravityPreset, isRunning, currentTime, telemetry, history,
          lastTimeRef, animRunning, clock, frames, edits, loading, isOpen, analysis, pending>>

----------------------------------------------------------------------------
(* Bounds of the model *)

MaxClock == 35                  \* frames are delivered up to this time, in 0.1 s
MaxHist == 3                    \* a running frame is taken only while history is shorter
MaxRequests == 2                \* narration requests outstanding at once
MaxEdits == 2                   \* edits made in the control panel
FrameGaps == {500, 1500}        \* ms between consecutive frames delivered by the host
ThetaValues == {0, 45}          \* slider positions exercised
V0Values == {20}
H0Values == {0, 2}
MassValues == {10}
CustomGravityValues == {0} \* positions of the custom gravity slider exercised

MsPerDs == 100                  \* ms in 0.1 s

----------------------------------------------------------------------------
(* Types and constants *)

EARTH == "Tierra (9.81)"
MOON == "Luna (1.62)"
MARS == "Marte (3.71)"
SUN == "Sol (274.0)"
CUSTOM == "Personalizada"

GravityType == {EARTH, MOON, MARS, SUN, CUSTOM}

GRAVITY_VALUES ==
    [g \in GravityType |->
        CASE g = EARTH -> 981
          [] g = MOON -> 162
          [] g = MARS -> 371
          [] g = SUN -> 27400
          [] g = CUSTOM -> 981]

ZeroSample == [t |-> 0, x |-> 0, y |-> 0, vx |-> 0, vy |-> 0, v |-> 0]

InitialParams == [theta |-> 45, v0 |-> 20, h0 |-> 0, gravity |-> GRAVITY_VALUES[EARTH], mass |-> 10]

----------------------------------------------------------------------------
(* Arithmetic helpers *)

Abs(n) == IF n < 0 THEN -n ELSE n

Max(a, b) == IF a >= b THEN a ELSE b

Min(a, b) == IF a <= b THEN a ELSE b

\* bisection for the largest r in b[2]..b[3] with r * r <= b[1]
SqrtSearch[b \in Nat \X Nat \X Nat] ==
    LET mid == (b[2] + b[3] + 1) \div 2
    IN IF b[2] >= b[3] THEN b[2]
       ELSE IF mid * mid <= b[1] THEN SqrtSearch[<<b[1], mid, b[3]>>]
       ELSE SqrtSearch[<<b[1], b[2], mid - 1>>]

\* Math.sqrt on a non-negative fixed-point value, rounded down
ISqrt(n) == SqrtSearch[<<n, 0, Min(n, 46340)>>]

\* Math.cos / Math.sin of theta degrees, in thousandths
CosMilli(theta) ==
    CASE theta = 0 -> 1000
      [] theta = 30 -> 866
      [] theta = 45 -> 707
      [] theta = 60 -> 500
      [] theta = 90 -> 0

SinMilli(theta) ==
    CASE theta = 0 -> 0
      [] theta = 30 -> 500
      [] theta = 45 -> 707
      [] theta = 60 -> 866
      [] theta = 90 -> 1000

----------------------------------------------------------------------------
(* Kinematics *)

\* mutant: the height is not clamped at the ground
calculateTelemetry_NoClamp(t, p) ==
    LET vx0 == p.v0 * CosMilli(p.theta)
        vy0 == p.v0 * SinMilli(p.theta)
        x == vx0 * t
        y == (20000 * p.h0) + (2 * vy0 * t) - (p.gravity * t * t)
        vx == vx0
        vy == vy0 - (p.gravity * t)
        v == ISqrt((Abs(vx) \div 100) * (Abs(vx) \div 100) + (Abs(vy) \div 100) * (Abs(vy) \div 100))
    IN [t |-> t, x |-> x, y |-> y, vx |-> vx, vy |-> vy, v |-> v]

calculateTelemetry(t, p) ==
    LET vx0 == p.v0 * CosMilli(p.theta)
        vy0 == p.v0 * SinMilli(p.theta)
        x == vx0 * t
        y == (20000 * p.h0) + (2 * vy0 * t) - (p.gravity * t * t)
        vx == vx0
        vy == vy0 - (p.gravity * t)
        v == ISqrt((Abs(vx) \div 100) * (Abs(vx) \div 100) + (Abs(vy) \div 100) * (Abs(vy) \div 100))
    IN [t |-> t, x |-> x, y |-> Max(0, y), vx |-> vx, vy |-> vy, v |-> v]

----------------------------------------------------------------------------
(* Animation loop *)

\* mutant: the subtraction is reversed
DeltaTime_Reversed(time) ==
    LET last == IF lastTimeRef = 0 THEN time ELSE lastTimeRef
    IN (last - time) \div MsPerDs

\* deltaTime of the frame delivered at `time`
DeltaTime(time) ==
    LET last == IF lastTimeRef = 0 THEN time ELSE lastTimeRef
    IN (time - last) \div MsPerDs

\* mutant: the ground-impact frame accepts the candidate time
Updater_KeepsOvershoot(prev, deltaTime) ==
    LET next == prev + deltaTime
        currentData == calculateTelemetry(next, params)
    IN /\ telemetry' = currentData
       /\ history' = Append(history, currentData)
       /\ frames' = frames + 1
       /\ IF next > 0 /\ currentData.y <= 0 /\ currentData.vy < 0
          THEN /\ isRunning' = FALSE
               /\ currentTime' = next
          ELSE /\ isRunning' = isRunning
               /\ currentTime' = next

\* mutant: the ground-impact frame returns before recording its sample
Updater_SkipsFinal(prev, deltaTime) ==
    LET next == prev + deltaTime
        currentData == calculateTelemetry(next, params)
    IN /\ telemetry' = currentData
       /\ frames' = frames + 1
       /\ IF next > 0 /\ currentData.y <= 0 /\ currentData.vy < 0
          THEN /\ isRunning' = FALSE
               /\ currentTime' = prev
               /\ history' = history
          ELSE /\ isRunning' = isRunning
               /\ currentTime' = next
               /\ history' = Append(history, currentData)

\* mutant: the ground test is missing
Updater_NeverStops(prev, deltaTime) ==
    LET next == prev + deltaTime
        currentData == calculateTelemetry(next, params)
    IN /\ telemetry' = currentData
       /\ history' = Append(history, currentData)
       /\ frames' = frames + 1
       /\ isRunning' = isRunning
       /\ currentTime' = next

\* mutant: the sample recorded is the one of the previous accepted time
Updater_RecordsPrevious(prev, deltaTime) ==
    LET next == prev + deltaTime
        currentData == calculateTelemetry(next, params)
    IN /\ telemetry' = currentData
       /\ history' = Append(history, calculateTelemetry(prev, params))
       /\ frames' = frames + 1
       /\ IF next > 0 /\ currentData.y <= 0 /\ currentData.vy < 0
          THEN /\ isRunning' = FALSE
               /\ currentTime' = prev
          ELSE /\ isRunning' = isRunning
               /\ currentTime' = next

\* the updater passed to setCurrentTime
Updater(prev, deltaTime) ==
    LET next == prev + deltaTime
        currentData == calculateTelemetry(next, params)
    IN /\ telemetry' = currentData
       /\ history' = Append(history, currentData)
       /\ frames' = frames + 1
       /\ IF next > 0 /\ currentData.y <= 0 /\ currentData.vy < 0
          THEN /\ isRunning' = FALSE
               /\ currentTime' = prev
          ELSE /\ isRunning' = isRunning
               /\ currentTime' = next

\* mutant: the baseline is refreshed only by running frames
animate_BaselineWhenRunning(time) ==
    /\ clock' = time
    /\ IF animRunning
       THEN /\ Len(history) < MaxHist
            /\ lastTimeRef' = time
            /\ Updater(currentTime, DeltaTime(time))
       ELSE UNCHANGED <<isRunning, currentTime, telemetry, history, frames, lastTimeRef>>
    /\ UNCHANGED <<animRunning, entry, paramVars, aiVars>>

animate(time) ==
    /\ clock' = time
    /\ lastTimeRef' = time
    /\ IF animRunning
       THEN /\ Len(history) < MaxHist
            /\ Updater(currentTime, DeltaTime(time))
       ELSE UNCHANGED <<isRunning, currentTime, telemetry, history, frames>>
    /\ UNCHANGED <<animRunning, entry, paramVars, aiVars>>

\* the host delivers the next animation frame to the pending animate callback
Frame ==
    \E gap \in FrameGaps :
        /\ clock + gap <= MaxClock * MsPerDs
        /\ animate(clock + gap)

\* a change of isRunning made inside a frame callback re-runs the effect later:
\* its cleanup cancels the pending callback and a new animate closure is scheduled
EffectRerun ==
    /\ animRunning # isRunning
    /\ animRunning' = isRunning
    /\ UNCHANGED <<entry, paramVars, aiVars, isRunning, currentTime, telemetry, history,
                   lastTimeRef, clock, frames>>

----------------------------------------------------------------------------
(* Commands *)

\* the state writes of handleReset
ResetWrites ==
    /\ currentTime' = 0
    /\ history' = <<>>
    /\ telemetry' = ZeroSample
    /\ lastTimeRef' = 0
    /\ frames' = 0

\* mutant: the frame-timestamp baseline survives the reset
handleReset_KeepsBaseline ==
    /\ isRunning' = FALSE
    /\ currentTime' = 0
    /\ history' = <<>>
    /\ telemetry' = ZeroSample
    /\ frames' = 0
    /\ animRunning' = FALSE
    /\ UNCHANGED <<entry, paramVars, aiVars, clock, lastTimeRef>>

handleReset ==
    /\ isRunning' = FALSE
    /\ ResetWrites
    /\ animRunning' = FALSE
    /\ UNCHANGED <<entry, paramVars, aiVars, clock>>

\* mutant: the button resets whenever the clock has advanced
handleToggle_ResetsAlways ==
    /\ entry = "App"
    /\ IF currentTime > 0
       THEN ResetWrites
       ELSE UNCHANGED <<currentTime, history, telemetry, lastTimeRef, frames>>
    /\ isRunning' = ~isRunning
    /\ animRunning' = ~isRunning
    /\ UNCHANGED <<entry, paramVars, aiVars, clock>>

\* src/App.tsx: the launch/pause button
handleToggle ==
    /\ entry = "App"
    /\ IF currentTime > 0 /\ ~isRunning /\ telemetry.y <= 0
       THEN ResetWrites
       ELSE UNCHANGED <<currentTime, history, telemetry, lastTimeRef, frames>>
    /\ isRunning' = ~isRunning
    /\ animRunning' = ~isRunning
    /\ UNCHANGED <<entry, paramVars, aiVars, clock>>

\* mutant: a launch restarts the clock
ToggleClick_Restarts ==
    /\ entry = "index"
    /\ isRunning' = ~isRunning
    /\ animRunning' = ~isRunning
    /\ currentTime' = IF isRunning THEN currentTime ELSE 0
    /\ UNCHANGED <<entry, paramVars, aiVars, clock, history, telemetry, lastTimeRef, frames>>

\* src/unnamed/part_000: the launch/pause button
ToggleClick ==
    /\ entry = "index"
    /\ isRunning' = ~isRunning
    /\ animRunning' = ~isRunning
    /\ UNCHANGED <<entry, paramVars, aiVars, clock, currentTime, history, telemetry,
                   lastTimeRef, frames>>

----------------------------------------------------------------------------
(* Coordinate mapper (SimulationCanvas effect)                             *)
(*                                                                         *)
(* A JavaScript number is a finite fixed-point value or one of the IEEE    *)
(* special values.  Units: t_peak, t_total 0.01 s; h_max, x_max mm;        *)
(* scaleX, scaleY, scale 0.001 px/m.                                       *)

Num(n) == [k |-> "num", v |-> n]
INF == [k |-> "inf", v |-> 0]
NINF == [k |-> "ninf", v |-> 0]
NAN == [k |-> "nan", v |-> 0]

IsZero(a) == a.k = "num" /\ a.v = 0

\* sign of a non-NaN number
Sign(a) ==
    CASE a.k = "inf" -> 1
      [] a.k = "ninf" -> -1
      [] OTHER -> IF a.v > 0 THEN 1 ELSE IF a.v < 0 THEN -1 ELSE 0

\* a * b, the finite product rescaled by 1/d
FMul(a, b, d) ==
    IF a.k = "nan" \/ b.k = "nan" THEN NAN
    ELSE IF a.k = "num" /\ b.k = "num" THEN Num((a.v * b.v) \div d)
    ELSE IF IsZero(a) \/ IsZero(b) THEN NAN
    ELSE IF Sign(a) * Sign(b) > 0 THEN INF ELSE NINF

\* a / b, the finite quotient rescaled by m
FDiv(a, b, m) ==
    IF a.k = "nan" \/ b.k = "nan" THEN NAN
    ELSE IF a.k = "num" /\ b.k = "num"
         THEN IF b.v = 0
              THEN (IF a.v = 0 THEN NAN ELSE IF a.v > 0 THEN INF ELSE NINF)
              ELSE Num((a.v * m) \div b.v)
    ELSE IF a.k # "num" /\ b.k # "num" THEN NAN
    ELSE IF a.k = "num" THEN Num(0)
    ELSE IF Sign(a) * (IF b.v >= 0 THEN 1 ELSE -1) > 0 THEN INF ELSE NINF

FAdd(a, b) ==
    IF a.k = "nan" \/ b.k = "nan" THEN NAN
    ELSE IF a.k = "num" /\ b.k = "num" THEN Num(a.v + b.v)
    ELSE IF a.k = "num" THEN b
    ELSE IF b.k = "num" THEN a
    ELSE IF a.k = b.k THEN a ELSE NAN

FNeg(a) ==
    CASE a.k = "inf" -> NINF
      [] a.k = "ninf" -> INF
      [] a.k = "nan" -> NAN
      [] OTHER -> Num(-a.v)

FSub(a, b) == FAdd(a, FNeg(b))

FLeq(a, b) ==
    IF a.k = "nan" \/ b.k = "nan" THEN FALSE
    ELSE IF a.k = "ninf" \/ b.k = "inf" THEN TRUE
    ELSE IF a.k = "inf" \/ b.k = "ninf" THEN FALSE
    ELSE a.v <= b.v

\* Math.max / Math.min: NaN if either argument is NaN
FMax(a, b) == IF a.k = "nan" \/ b.k = "nan" THEN NAN ELSE IF FLeq(a, b) THEN b ELSE a

FMin(a, b) == IF a.k = "nan" \/ b.k = "nan" THEN NAN ELSE IF FLeq(a, b) THEN a ELSE b

\* Math.sqrt
FSqrt(a) ==
    CASE a.k = "nan" -> NAN
      [] a.k = "ninf" -> NAN
      [] a.k = "inf" -> INF
      [] OTHER -> IF a.v < 0 THEN NAN ELSE Num(ISqrt(a.v))

PADDING == 60
CanvasWidth == 800
CanvasHeight == 600

t_peak(p) == FDiv(Num(p.v0 * SinMilli(p.theta)), Num(p.gravity), 10)

h_max(p) ==
    LET v0y == Num(p.v0 * SinMilli(p.theta))
        tp == t_peak(p)
    IN FSub(FAdd(Num(1000 * p.h0), FMul(v0y, tp, 100)),
            FMul(Num(p.gravity), FMul(tp, tp, 1), 2000))

t_total(p) ==
    LET v0y == p.v0 * SinMilli(p.theta)
    IN FDiv(FAdd(Num(v0y), FSqrt(Num(v0y * v0y + 20000 * p.gravity * p.h0))), Num(p.gravity), 10)

x_max(p) == FMul(Num(p.v0 * CosMilli(p.theta)), t_total(p), 100)

scaleX(p) == FDiv(Num(CanvasWidth - PADDING * 2), FMax(FMul(x_max(p), Num(12), 10), Num(50000)), 1000000)

scaleY(p) == FDiv(Num(CanvasHeight - PADDING * 2), FMax(FMul(h_max(p), Num(15), 10), Num(30000)), 1000000)

scale(p) == FMin(scaleX(p), scaleY(p))

----------------------------------------------------------------------------
(* Parameter store (ControlPanel); every control is disabled while running *)

handleChange(field, value) ==
    /\ params' = [params EXCEPT ![field] = value]
    /\ animRunning' = isRunning
    /\ edits' = edits + 1

SliderValues(field) ==
    CASE field = "v0" -> V0Values
      [] field = "theta" -> ThetaValues
      [] field = "h0" -> H0Values
      [] field = "mass" -> MassValues

SliderChange ==
    /\ ~isRunning
    /\ edits < MaxEdits
    /\ \E field \in {"v0", "theta", "h0", "mass"} :
         \E value \in SliderValues(field) : handleChange(field, value)
    /\ UNCHANGED <<entry, gravityPreset, aiVars, isRunning, currentTime, telemetry, history,
                   lastTimeRef, clock, frames>>

\* mutant: the selector changes without storing the preset's constant
handleGravityChange_SelectorOnly ==
    /\ ~isRunning
    /\ edits < MaxEdits
    /\ \E preset \in GravityType :
         /\ gravityPreset' = preset
         /\ params' = params
         /\ animRunning' = isRunning
         /\ edits' = edits + 1
    /\ UNCHANGED <<entry, aiVars, isRunning, currentTime, telemetry, history,
                   lastTimeRef, clock, frames>>

handleGravityChange ==
    /\ ~isRunning
    /\ edits < MaxEdits
    /\ \E preset \in GravityType :
         /\ gravityPreset' = preset
         /\ IF preset # CUSTOM
            THEN handleChange("gravity", GRAVITY_VALUES[preset])
            ELSE /\ params' = params
                 /\ animRunning' = isRunning
                 /\ edits' = edits + 1
    /\ UNCHANGED <<entry, aiVars, isRunning, currentTime, telemetry, history,
                   lastTimeRef, clock, frames>>

CustomGravityChange ==
    /\ ~isRunning
    /\ edits < MaxEdits
    /\ gravityPreset = CUSTOM
    /\ \E value \in CustomGravityValues : handleChange("gravity", value)
    /\ UNCHANGED <<entry, gravityPreset, aiVars, isRunning, currentTime, telemetry, history,
                   lastTimeRef, clock, frames>>

----------------------------------------------------------------------------
(* AI narration (AIAnalysis) *)

\* the button's onClick, up to the await of generateContent
getAIAnalysis ==
    /\ pending < MaxRequests
    /\ loading' = TRUE
    /\ isOpen' = TRUE
    /\ pending' = pending + 1
    /\ UNCHANGED <<analysis, entry, paramVars, simVars>>

\* an awaited generateContent settles: text, empty text, or a thrown error
RequestSettles ==
    /\ pending > 0
    /\ \E outcome \in {"text", "No se pudo generar el analisis.", "Error conectando con el asistente de IA."} :
         analysis' = outcome
    /\ loading' = FALSE
    /\ pending' = pending - 1
    /\ UNCHANGED <<isOpen, entry, paramVars, simVars>>

ClosePanel ==
    /\ isOpen
    /\ isOpen' = FALSE
    /\ UNCHANGED <<loading, analysis, pending, entry, paramVars, simVars>>

----------------------------------------------------------------------------

Init ==
    /\ entry \in {"App", "index"}
    /\ params = InitialParams
    /\ gravityPreset = EARTH
    /\ isRunning = FALSE
    /\ currentTime = 0
    /\ telemetry = ZeroSample
    /\ history = <<>>
    /\ lastTimeRef = 0
    /\ animRunning = FALSE
    /\ clock = 0
    /\ frames = 0
    /\ edits = 0
    /\ loading = FALSE
    /\ isOpen = FALSE
    /\ analysis = "null"
    /\ pending = 0

Next ==
    \/ Frame
    \/ EffectRerun
    \/ handleReset
    \/ handleToggle
    \/ ToggleClick
    \/ SliderChange
    \/ handleGravityChange
    \/ CustomGravityChange

Spec == Init /\ [][Next]_vars

\* the launch command: the launch/pause button pressed while IDLE
Launch ==
    /\ ~isRunning
    /\ (handleToggle \/ ToggleClick)

\* runs that are launched and then left alone: no pause, no reset command
NextRun ==
    \/ Frame
    \/ EffectRerun
    \/ Launch
    \/ SliderChange
    \/ handleGravityChange
    \/ CustomGravityChange

\* the host keeps delivering animation frames: animate requests the next one every time
SpecRun == Init /\ [][NextRun]_vars /\ WF_vars(Frame)

\* the narration panel next to the parameter store it reads
NextAI ==
    \/ getAIAnalysis
    \/ RequestSettles
    \/ ClosePanel
    \/ SliderChange
    \/ handleGravityChange
    \/ CustomGravityChange

SpecAI == Init /\ [][NextAI]_vars

----------------------------------------------------------------------------
(* Properties *)

\* the session after handleReset
ZeroSession ==
    /\ ~isRunning
    /\ currentTime = 0
    /\ history = <<>>
    /\ telemetry = ZeroSample
    /\ lastTimeRef = 0

\* a sample that has descended through the ground
Landed(s) == s.t > 0 /\ s.y <= 0 /\ s.vy < 0

\* src/App.tsx only: a launch from a landed session, which runs handleReset first
RelaunchAfterLanding ==
    /\ entry = "App"
    /\ ~isRunning /\ currentTime > 0 /\ telemetry.y <= 0
    /\ handleToggle

\* C1: on a frame taken while RUNNING with candidate time next = currentTime + deltaTime,
\* if next > 0 and the sample at next has y <= 0 and vy < 0 the driver goes IDLE and
\* currentTime keeps its pre-frame value (strictly below next when deltaTime > 0);
\* on every other RUNNING frame currentTime becomes next and the driver stays RUNNING.
C1_GroundStopDiscard ==
    [][(isRunning /\ animRunning /\ Frame) =>
        LET dt == DeltaTime(clock')
            next == currentTime + dt
            s == calculateTelemetry(next, params)
        IN IF next > 0 /\ s.y <= 0 /\ s.vy < 0
           THEN /\ ~isRunning'
                /\ currentTime' = currentTime
                /\ (dt > 0 => currentTime' < next)
           ELSE /\ isRunning'
                /\ currentTime' = next]_vars

\* the ground-impact frame has stopped the driver with the overshoot sample displayed
C1_Witness ==
    /\ ~isRunning
    /\ history # <<>>
    /\ Landed(telemetry)
    /\ currentTime < telemetry.t
    /\ currentTime > 0

\* C2 (as stated): a launch from any IDLE state (paused, landed or fresh) makes the
\* driver RUNNING and leaves currentTime, the current sample and the history unchanged.
C2_LaunchResumesEverywhere ==
    [][(~isRunning /\ (handleToggle \/ ToggleClick)) =>
        /\ isRunning'
        /\ UNCHANGED <<currentTime, telemetry, history>>]_vars

\* C2 (amended): a launch from IDLE makes the driver RUNNING; it leaves currentTime, the
\* current sample and the history unchanged, except that the launch of src/App.tsx from
\* a state with currentTime > 0 and telemetry.y <= 0 runs handleReset first and so starts
\* from the zeroed session.
C2_LaunchResumes ==
    [][(~isRunning /\ (handleToggle \/ ToggleClick)) =>
        /\ isRunning'
        /\ IF entry = "App" /\ currentTime > 0 /\ telemetry.y <= 0
           THEN currentTime' = 0 /\ telemetry' = ZeroSample /\ history' = <<>> /\ lastTimeRef' = 0
           ELSE UNCHANGED <<currentTime, telemetry, history, lastTimeRef>>]_vars

\* a launch has resumed a landed session untouched: RUNNING with the landed sample displayed
C2_Witness ==
    /\ isRunning
    /\ currentTime > 0
    /\ Landed(telemetry)
    /\ history # <<>>

\* C3: the reset command, in any state, yields running = false, currentTime = 0, empty
\* history, the all-zero sample and a cleared frame-timestamp baseline; hence a second
\* reset leaves that state as it is.
C3_ResetZeroes ==
    [][handleReset => (ZeroSession' /\ (ZeroSession => UNCHANGED <<isRunning, currentTime, history, telemetry, lastTimeRef>>))]_vars

\* frames have been delivered and a reset has then cleared the session and the baseline
C3_Witness ==
    /\ ZeroSession
    /\ clock > 0
    /\ ~animRunning

\* C4: a pause issued while RUNNING makes the driver IDLE and leaves currentTime, the
\* current sample and the history as the last frame left them.
C4_PauseNoRollback ==
    [][(isRunning /\ (handleToggle \/ ToggleClick)) =>
        /\ ~isRunning'
        /\ UNCHANGED <<currentTime, telemetry, history, lastTimeRef>>]_vars

\* the driver is IDLE in mid-flight with the clock still at the last accepted sample
C4_Witness ==
    /\ ~isRunning /\ ~animRunning
    /\ currentTime > 0
    /\ telemetry.t = currentTime
    /\ telemetry.y > 0
    /\ history # <<>>

\* C5: the current sample and every recorded sample have y >= 0.
C5_HeightNonNegative ==
    /\ telemetry.y >= 0
    /\ \A i \in 1..Len(history) : history[i].y >= 0

\* an overshoot sample, whose unclamped height is negative, has been recorded
C5_Witness ==
    \E i \in 1..Len(history) :
        /\ Landed(history[i])
        /\ (20000 * params.h0) + (2 * params.v0 * SinMilli(params.theta) * history[i].t)
              - (params.gravity * history[i].t * history[i].t) < 0

\* C6 (as stated): over frames, pauses and launches currentTime never decreases; only
\* the reset command lowers it.
C6_OnlyResetCommandLowers ==
    [][currentTime' >= currentTime \/ handleReset]_vars

\* C6 (amended): currentTime never decreases in a step, except in a step that runs
\* handleReset: the reset command, or the launch of src/App.tsx from a landed session.
C6_TimeMonotone ==
    [][currentTime' >= currentTime \/ handleReset \/ RelaunchAfterLanding]_vars

\* the clock has advanced during a run
C6_Witness ==
    /\ isRunning
    /\ currentTime > 0
    /\ Len(history) >= 2

\* C7 (as stated): the history is emptied only by the reset command.
C7_OnlyResetCommandEmpties ==
    [][Len(history') >= Len(history) \/ handleReset]_vars

\* C7 (amended): the history length equals the number of frames processed since
\* handleReset last ran (as the reset command, or inside the launch of src/App.tsx from
\* a landed session); a step leaves the history alone, appends the new current sample at
\* its end, or empties it by running handleReset.
C7_HistoryCountsFrames ==
    /\ [](Len(history) = frames)
    /\ [][\/ history' = history
          \/ /\ Frame
             /\ history' = Append(history, telemetry')
          \/ /\ history' = <<>>
             /\ (handleReset \/ RelaunchAfterLanding)]_vars

\* several frames have been recorded in one run
C7_Witness ==
    /\ Len(history) = MaxHist
    /\ frames = MaxHist

\* C8: at most one narration request is outstanding at any time.
C8_SingleRequestInFlight ==
    pending <= 1

\* C9: in every reachable parameter state the viewport scale is a positive finite
\* number and the coordinate mapper divides by a non-zero gravity.
C9_ScaleWellDefined ==
    /\ params.gravity # 0
    /\ scale(params).k = "num"
    /\ scale(params).v > 0

\* C10: a frame callback that fires while the driver is IDLE changes neither
\* currentTime, the current sample nor the history.
C10_IdleFrameInert ==
    [][(~isRunning /\ Frame) => UNCHANGED <<currentTime, telemetry, history>>]_vars

\* C12: while the preset selector is not Custom the stored gravity is that preset's
\* constant; selecting Custom leaves the stored gravity unchanged; any other change of
\* the stored gravity happens with the selector at Custom before and after.
C12_PresetConsistency ==
    /\ [](gravityPreset # CUSTOM => params.gravity = GRAVITY_VALUES[gravityPreset])
    /\ [][/\ (gravityPreset # CUSTOM /\ gravityPreset' = CUSTOM) => params.gravity' = params.gravity
          /\ (params.gravity' # params.gravity) =>
                \/ gravityPreset' # CUSTOM
                \/ gravityPreset = CUSTOM]_vars

\* a preset other than the initial one is selected with its constant stored
C12_Witness ==
    /\ gravityPreset = MOON
    /\ params.gravity = 162
    /\ edits > 0

\* C13: after a frame processed while RUNNING the current sample is the last element of
\* the history; its time equals currentTime if the frame did not land and is strictly
\* greater than currentTime if it did.
C13_SampleIsLastRecorded ==
    [][(isRunning /\ animRunning /\ Frame) =>
        /\ history' # <<>>
        /\ telemetry' = history'[Len(history')]
        /\ IF Landed(telemetry')
           THEN ~isRunning' /\ telemetry'.t > currentTime'
           ELSE isRunning' /\ telemetry'.t = currentTime']_vars

\* the overshoot sample is displayed and recorded last while currentTime is rolled back
C13_Witness ==
    /\ ~isRunning
    /\ Len(history) >= 2
    /\ telemetry = history[Len(history)]
    /\ Landed(telemetry)
    /\ telemetry.t > currentTime
    /\ history[Len(history) - 1].t = currentTime

\* C14: every frame, running or not, leaves the baseline at its own timestamp; a running
\* frame that does not land advances currentTime by the time since the immediately
\* preceding frame, and by 0 when the baseline was unset.
C14_IdleTimeNotAdded ==
    [][Frame =>
        /\ lastTimeRef' = clock'
        /\ (isRunning /\ animRunning /\ isRunning') =>
              currentTime' - currentTime =
                 IF lastTimeRef = 0 THEN 0 ELSE (clock' - clock) \div MsPerDs]_vars

\* a run whose clock lags the frame timestamps by more than the frames it was given:
\* frames passed while IDLE and were not added
C14_Witness ==
    /\ isRunning
    /\ Len(history) >= 2
    /\ history[1].t > 0
    /\ telemetry.t = currentTime
    /\ clock - currentTime * MsPerDs >= 1500
    /\ lastTimeRef = clock

\* the shortest and the longest time between two frames
MinGap == CHOOSE g \in FrameGaps : \A h \in FrameGaps : g <= h

MaxGap == CHOOSE g \in FrameGaps : \A h \in FrameGaps : g >= h

\* frames of the shortest gap needed from accepted time t until the candidate sample
\* has landed; more than n if n frames do not suffice
RECURSIVE FramesToLand(_, _, _)
FramesToLand(t, p, n) ==
    IF n = 0 THEN 1
    ELSE IF Landed(calculateTelemetry(t + MinGap \div MsPerDs, p)) THEN 1
    ELSE 1 + FramesToLand(t + MinGap \div MsPerDs, p, n - 1)

\* the frames the model still delivers cover the rest of the flight
RoomToLand ==
    LET need == (IF lastTimeRef = 0 THEN 1 ELSE 0) + FramesToLand(currentTime, params, MaxHist)
    IN /\ Len(history) + need <= MaxHist
       /\ clock + need * MaxGap <= MaxClock * MsPerDs

\* C11: with gravity > 0, a running driver whose flight fits in the frames still
\* delivered eventually lands and is IDLE again, provided frames keep being delivered.
C11_RunTerminates ==
    (isRunning /\ animRunning /\ params.gravity > 0 /\ RoomToLand) ~> ~isRunning

\* a flight of more than one frame has ended on the ground without having been paused:
\* every recorded sample but the last is in the air, one frame gap apart
C11_Witness ==
    /\ ~isRunning
    /\ params.gravity > 0
    /\ Len(history) = MaxHist
    /\ Landed(history[MaxHist])
    /\ \A i \in 1..(MaxHist - 1) : ~Landed(history[i])
    /\ history[MaxHist - 1].t = currentTime
    /\ history[MaxHist - 1].t > history[1].t

====
